---- MODULE Spec2Model ----
(***************************************************************************)
(* Model of metadataStore/database/collections.py: the four record        *)
(* classes Header, EventDescriptor, Event and BeamlineConfig, their        *)
(* constructors (with Python's definition-time default arguments), their   *)
(* __compose_document methods and their save methods, run by concurrent    *)
(* callers against one shared document database (insert / ensure_index).   *)
(***************************************************************************)
EXTENDS Integers, Sequences, FiniteSets, TLC

\* ------------------------------------------------------------------ bounds
MaxObjs == 2        \* record objects constructed in one behaviour
MaxCalls == 2       \* save calls started in one behaviour
MaxMut == 2         \* in-place container mutations in one behaviour

Callers == {"c1", "c2"}          \* concurrent callers of save
Users == {"arkilic", "alice"}    \* identities getpass.getuser() may return
LoadUser == "arkilic"            \* the process user when the module is loaded
Colls == {"header", "event_type_descriptor", "event", "beamline_config"}

\* ------------------------------------------------------------ Python values
\* Every value has the same shape: t is the Python type, s a string payload,
\* n an integer payload (for list/dict in memory: the heap address of the
\* object), c the elements of a container literal or of an encoded container.
V(t, s, n, c) == [t |-> t, s |-> s, n |-> n, c |-> c]
NoneV == V("none", "", 0, <<>>)
Str(x) == V("str", x, 0, <<>>)
Int_(k) == V("int", "", k, <<>>)
Time(k) == V("time", "", k, <<>>)
ListRef(r) == V("list", "", r, <<>>)
DictRef(r) == V("dict", "", r, <<>>)
ListLit(items) == V("list", "", 0, items)   \* a list expression in the call
DictLit(items) == V("dict", "", 0, items)   \* a dict expression in the call
Omitted == V("omitted", "", 0, <<>>)        \* argument not passed
Raised == V("raise", "ValidationError", 0, <<>>)
IsContainer(v) == v.t \in {"list", "dict"}
IsLiteral(v) == IsContainer(v) /\ v.n = 0

\* ------------------------------------------------- validators (utility.py)
validate_string(v) == IF v.t \in {"str", "none"} THEN v ELSE Raised
validate_dict(v) == IF v.t = "dict" THEN v ELSE Raised
validate_list(v) == IF v.t = "list" THEN v ELSE Raised
validate_int(v) == IF v.t = "int" THEN v ELSE Raised
validate_start_time(v) == IF v.t = "time" THEN v ELSE Raised
validate_end_time(v) == IF v.t \in {"time", "none"} THEN v ELSE Raised

VARIABLES
    user,       \* what getpass.getuser() returns now
    defOwner,   \* getpass.getuser() as evaluated when the def statements ran
    heap,       \* heap[r]: elements of the list/dict object at address r
    objs,       \* the record objects constructed so far
    lastCtor,   \* the last constructor invocation and whether it raised
    muts,       \* number of in-place container mutations so far
    docs,       \* docs[c]: documents stored in collection c
    indexes,    \* indexes[c]: indexes existing on collection c
    nextId,     \* next generated _id
    calls       \* save calls, in the order they were started

vars == <<user, defOwner, heap, objs, lastCtor, muts, docs, indexes, nextId, calls>>

\* -------------------------------------------- definition-time default values
\* Addresses of the container objects created when the def statements ran.
HeaderVersionsDefault == 1
TagsDefault == 2
CustomDefault == 3
TypeDescriptorDefault == 4
DataDefault == 5
ConfigParamsDefault == 6

HeaderDefaults ==
    [beamline_id |-> NoneV, header_versions |-> ListRef(HeaderVersionsDefault),
     status |-> Str("In Progress"), owner |-> Str(defOwner), end_time |-> NoneV,
     tags |-> ListRef(TagsDefault), custom |-> DictRef(CustomDefault)]
EventDescriptorDefaults ==
    [tag |-> NoneV, type_descriptor |-> DictRef(TypeDescriptorDefault)]
EventDefaults ==
    [owner |-> Str(defOwner), description |-> NoneV, data |-> DictRef(DataDefault)]
BeamlineConfigDefaults ==
    [config_params |-> DictRef(ConfigParamsDefault)]

DefaultsOf(cls) ==
    CASE cls = "Header" -> HeaderDefaults
      [] cls = "EventDescriptor" -> EventDescriptorDefaults
      [] cls = "Event" -> EventDefaults
      [] cls = "BeamlineConfig" -> BeamlineConfigDefaults

\* Parameters in the order of the signature; container expressions among the
\* arguments are evaluated (allocated) in this order before the call.
ParamsOf(cls) ==
    CASE cls = "Header" -> <<"start_time", "scan_id", "beamline_id", "header_versions",
                             "status", "owner", "end_time", "tags", "custom">>
      [] cls = "EventDescriptor" -> <<"header_id", "event_type_id", "descriptor_name",
                                      "tag", "type_descriptor">>
      [] cls = "Event" -> <<"header_id", "event_descriptor_id", "seq_no", "owner",
                            "description", "data">>
      [] cls = "BeamlineConfig" -> <<"header_id", "config_params">>

\* Number of container literals among the first i arguments.
RECURSIVE LitsUpTo(_, _, _)
LitsUpTo(cls, args, i) ==
    IF i = 0 THEN 0
    ELSE LitsUpTo(cls, args, i - 1) + (IF IsLiteral(args[ParamsOf(cls)[i]]) THEN 1 ELSE 0)

\* The heap after the caller has evaluated the container literals.
RECURSIVE AllocFrom(_, _, _, _)
AllocFrom(cls, args, i, h) ==
    IF i > Len(ParamsOf(cls)) THEN h
    ELSE AllocFrom(cls, args, i + 1,
                   IF IsLiteral(args[ParamsOf(cls)[i]])
                   THEN Append(h, args[ParamsOf(cls)[i]].c) ELSE h)
Alloc(cls, args) == AllocFrom(cls, args, 1, heap)

PosOf(cls, p) == CHOOSE i \in 1..Len(ParamsOf(cls)) : ParamsOf(cls)[i] = p

\* Parameter binding of a call: an omitted argument is bound to the default
\* object of the signature, a container literal to its fresh object.
Bind(cls, args) ==
    [p \in DOMAIN args |->
        IF args[p] = Omitted THEN DefaultsOf(cls)[p]
        ELSE IF IsLiteral(args[p])
             THEN V(args[p].t, "", Len(heap) + LitsUpTo(cls, args, PosOf(cls, p)), <<>>)
             ELSE args[p]]

\* ------------------------------------------------------------ constructors
HeaderInit_NoOwnerCheck(b) ==
    [start_time |-> validate_start_time(b.start_time),
     end_time |-> validate_end_time(b.end_time),
     owner |-> b.owner,
     header_versions |-> validate_list(b.header_versions),
     scan_id |-> b.scan_id,
     tags |-> validate_list(b.tags),
     status |-> validate_string(b.status),
     beamline_id |-> validate_string(b.beamline_id),
     custom |-> validate_dict(b.custom)]
HeaderInit(b) ==
    [start_time |-> validate_start_time(b.start_time),
     end_time |-> validate_end_time(b.end_time),
     owner |-> validate_string(b.owner),
     header_versions |-> validate_list(b.header_versions),
     scan_id |-> b.scan_id,
     tags |-> validate_list(b.tags),
     status |-> validate_string(b.status),
     beamline_id |-> validate_string(b.beamline_id),
     custom |-> validate_dict(b.custom)]

EventDescriptorInit(b) ==
    [header_id |-> b.header_id,
     event_type_id |-> b.event_type_id,
     tag |-> b.tag,
     descriptor_name |-> validate_string(b.descriptor_name),
     type_descriptor |-> validate_dict(b.type_descriptor)]

EventInit(b) ==
    [header_id |-> b.header_id,
     event_descriptor_id |-> b.event_descriptor_id,
     seq_no |-> validate_int(b.seq_no),
     owner |-> validate_string(b.owner),
     description |-> validate_string(b.description),
     data |-> validate_dict(b.data)]

BeamlineConfigInit(b) ==
    [header_id |-> b.header_id,
     config_params |-> validate_dict(b.config_params)]

InitOf(cls, b) ==
    CASE cls = "Header" -> HeaderInit(b)
      [] cls = "EventDescriptor" -> EventDescriptorInit(b)
      [] cls = "Event" -> EventInit(b)
      [] cls = "BeamlineConfig" -> BeamlineConfigInit(b)

\* A validator raised: the constructor does not return an object.
Raises(f) == \E k \in DOMAIN f : f[k] = Raised

\* ------------------------------------------------------ __compose_document
HeaderCompose(f) ==
    [start_time |-> f.start_time, end_time |-> f.end_time, owner |-> f.owner,
     scan_id |-> f.scan_id, status |-> f.status, beamline_id |-> f.beamline_id,
     header_versions |-> f.header_versions, custom |-> f.custom, tags |-> f.tags]

EventDescriptorCompose(f) ==
    [header_id |-> f.header_id, event_type_id |-> f.event_type_id,
     descriptor_name |-> f.descriptor_name, tag |-> f.tag,
     type_descriptor |-> f.type_descriptor]

EventCompose(f) ==
    [header_id |-> f.header_id, event_descriptor_id |-> f.event_descriptor_id,
     seq_no |-> f.seq_no, owner |-> f.owner, description |-> f.description,
     data |-> f.data]

BeamlineConfigCompose(f) ==
    [header_id |-> f.header_id, config_params |-> f.config_params]

ComposeOf(cls, f) ==
    CASE cls = "Header" -> HeaderCompose(f)
      [] cls = "EventDescriptor" -> EventDescriptorCompose(f)
      [] cls = "Event" -> EventCompose(f)
      [] cls = "BeamlineConfig" -> BeamlineConfigCompose(f)

\* The driver's encoding of a document: a container is stored by value.
Encode(d, h) ==
    [k \in DOMAIN d |-> IF IsContainer(d[k]) THEN V(d[k].t, "", 0, h[d[k].n]) ELSE d[k]]

\* ------------------------------------------------------------ the database
\* An index specification as passed to ensure_index.
Idx(keys, unique) == [keys |-> keys, unique |-> unique]
Key(field, dir) == [field |-> field, dir |-> dir]

HeaderSaveIndexes_NoUnique ==
    << Idx(<<Key("scan_id", -1)>>, FALSE),
       Idx(<<Key("owner", -1), Key("start_time", -1)>>, FALSE) >>
HeaderSaveIndexes_WrongKey ==
    << Idx(<<Key("scan_id", -1)>>, FALSE),
       Idx(<<Key("owner", -1), Key("start_time", -1)>>, TRUE) >>
HeaderSaveIndexes ==
    << Idx(<<Key("scan_id", -1)>>, TRUE),
       Idx(<<Key("owner", -1), Key("start_time", -1)>>, FALSE) >>

EventDescriptorSaveIndexes ==
    << Idx(<<Key("header_id", -1), Key("descriptor_name", -1)>>, FALSE) >>

EventSaveIndexes ==
    << Idx(<<Key("event_descriptor_id", -1), Key("header_id", 1), Key("data", -1)>>, FALSE) >>

BeamlineConfigSaveIndexes ==
    << Idx(<<Key("header_id", -1)>>, FALSE) >>

SaveIndexes(cls) ==
    CASE cls = "Header" -> HeaderSaveIndexes
      [] cls = "EventDescriptor" -> EventDescriptorSaveIndexes
      [] cls = "Event" -> EventSaveIndexes
      [] cls = "BeamlineConfig" -> BeamlineConfigSaveIndexes

CollOf(cls) ==
    CASE cls = "Header" -> "header"
      [] cls = "EventDescriptor" -> "event_type_descriptor"
      [] cls = "Event" -> "event"
      [] cls = "BeamlineConfig" -> "beamline_config"

\* The values a document has under the fields of an index.
KeyOf(body, keys) == [j \in 1..Len(keys) |-> body[keys[j].field]]

\* insert: the write is rejected when a unique index of the collection
\* already holds the document's key.
Violates(coll, body) ==
    \E ix \in indexes[coll] :
        /\ ix.unique
        /\ \E d \in docs[coll] : KeyOf(d.body, ix.keys) = KeyOf(body, ix.keys)

StoreDoc_Replace(coll, d) == {x \in docs[coll] : x.body # d.body} \cup {d}
StoreDoc(coll, d) == docs[coll] \cup {d}

\* ensure_index: an index with these keys exists already (nothing is done).
HasIndex(coll, ix) == \E e \in indexes[coll] : e.keys = ix.keys

\* ensure_index: building a unique index fails on a collection that holds
\* two documents with the same key.
BuildFails(coll, ix) ==
    /\ ix.unique
    /\ \E d1, d2 \in docs[coll] :
          d1 # d2 /\ KeyOf(d1.body, ix.keys) = KeyOf(d2.body, ix.keys)

\* --------------------------------------------------------- control of save
Active(c) == c.pc = "ensure"
Busy(p) == \E n \in 1..Len(calls) : calls[n].caller = p /\ Active(calls[n])
CallOf(p) == CHOOSE n \in 1..Len(calls) : calls[n].caller = p /\ Active(calls[n])

AfterInsert_Swallow(ok) == "ensure"
AfterInsert(ok) == IF ok THEN "ensure" ELSE "raised"

AfterEnsure(cls, k, ok) ==
    IF ~ok THEN "raised" ELSE IF k < Len(SaveIndexes(cls)) THEN "ensure" ELSE "done"

\* ------------------------------------------------------------------ actions
NoCtor == [cls |-> "none", args |-> [nil |-> Omitted], raised |-> FALSE]

Init ==
    /\ user = LoadUser
    /\ defOwner = user
    /\ heap = [r \in 1..ConfigParamsDefault |-> <<>>]
    /\ objs = <<>>
    /\ lastCtor = NoCtor
    /\ muts = 0
    /\ docs = [c \in Colls |-> {}]
    /\ indexes = [c \in Colls |-> {}]
    /\ nextId = 1
    /\ calls = <<>>

\* cls(**args): bind the parameters, run __init__, return the object unless a
\* validator raised.
New(cls, args) ==
    LET f == InitOf(cls, Bind(cls, args)) IN
    /\ IF Raises(f)
       THEN /\ lastCtor' = [cls |-> cls, args |-> args, raised |-> TRUE]
            /\ UNCHANGED <<heap, objs>>
       ELSE /\ Len(objs) < MaxObjs
            /\ heap' = Alloc(cls, args)
            /\ objs' = Append(objs, [cls |-> cls, f |-> f, args |-> args, by |-> user,
                                     made |-> Encode(ComposeOf(cls, f), heap')])
            /\ lastCtor' = [cls |-> cls, args |-> args, raised |-> FALSE]
    /\ UNCHANGED <<user, defOwner, muts, docs, indexes, nextId, calls>>

HeaderNew(args) == New("Header", args)
EventDescriptorNew(args) == New("EventDescriptor", args)
EventNew(args) == New("Event", args)
BeamlineConfigNew(args) == New("BeamlineConfig", args)

\* A caller changes a container attribute of a record in place
\* (obj.tags.append("y"), obj.custom["y"] = ...).
Mutate(i, k) ==
    /\ muts < MaxMut
    /\ i \in 1..Len(objs)
    /\ k \in DOMAIN objs[i].f
    /\ IsContainer(objs[i].f[k])
    /\ LET r == objs[i].f[k].n IN
         heap' = [heap EXCEPT ![r] =
                    IF objs[i].f[k].t = "dict" /\ \E j \in 1..Len(@) : @[j] = "y"
                    THEN @ ELSE Append(@, "y")]
    /\ muts' = muts + 1
    /\ UNCHANGED <<user, defOwner, objs, lastCtor, docs, indexes, nextId, calls>>

\* The identity of the process user changes after the module was loaded.
SetUser(u) ==
    /\ u # user
    /\ user' = u
    /\ UNCHANGED <<defOwner, heap, objs, lastCtor, muts, docs, indexes, nextId, calls>>

\* obj.save() up to the insert: composed_dict = self.__compose_document();
\* _id = db[coll].insert(composed_dict)
SaveInsert(p, i) ==
    /\ ~Busy(p)
    /\ Len(calls) < MaxCalls
    /\ i \in 1..Len(objs)
    /\ LET cls == objs[i].cls
           coll == CollOf(cls)
           doc == ComposeOf(cls, objs[i].f)
           body == Encode(doc, heap)
           ok == ~Violates(coll, body)
       IN /\ docs' = IF ok THEN [docs EXCEPT ![coll] = StoreDoc(coll, [id |-> nextId, body |-> body])]
                     ELSE docs
          /\ nextId' = nextId + 1
          /\ calls' = Append(calls,
                [caller |-> p, obj |-> i, cls |-> cls, pc |-> AfterInsert(ok), k |-> 1,
                 doc |-> doc, id |-> nextId, insertOk |-> ok,
                 indexed |-> \E e \in indexes[coll] : e.keys = SaveIndexes(cls)[1].keys,
                 ensured |-> 0, err |-> IF ok THEN "" ELSE "DuplicateKeyError", ret |-> 0])
    /\ UNCHANGED <<user, defOwner, heap, objs, lastCtor, muts, indexes>>

\* db[coll].ensure_index(...): the k-th index declaration of the save method;
\* after the last one, return _id.
EnsureStep(p) ==
    /\ Busy(p)
    /\ LET n == CallOf(p)
           c == calls[n]
           coll == CollOf(c.cls)
           ix == SaveIndexes(c.cls)[c.k]
           ok == HasIndex(coll, ix) \/ ~BuildFails(coll, ix)
       IN /\ c.pc = "ensure"
          /\ indexes' = IF ok /\ ~HasIndex(coll, ix)
                        THEN [indexes EXCEPT ![coll] = @ \cup {ix}] ELSE indexes
          /\ calls' = [calls EXCEPT ![n] =
                [c EXCEPT !.pc = AfterEnsure(c.cls, c.k, ok),
                          !.k = IF ok /\ c.k < Len(SaveIndexes(c.cls)) THEN c.k + 1 ELSE c.k,
                          !.ensured = c.ensured + 1,
                          !.err = IF ok THEN c.err ELSE "DuplicateKeyError",
                          !.ret = IF AfterEnsure(c.cls, c.k, ok) = "done" THEN c.id ELSE c.ret]]
    /\ UNCHANGED <<user, defOwner, heap, objs, lastCtor, muts, docs, nextId>>

\* ------------------------------------------------------------------ inputs
T0 == Time(0)
HeaderArgs(start, scan, owner, tags, custom) ==
    [start_time |-> start, scan_id |-> scan, beamline_id |-> Omitted,
     header_versions |-> Omitted, status |-> Omitted, owner |-> owner,
     end_time |-> Omitted, tags |-> tags, custom |-> custom]
EventDescriptorArgs(name, td) ==
    [header_id |-> Int_(1), event_type_id |-> Int_(1), descriptor_name |-> name,
     tag |-> Omitted, type_descriptor |-> td]
EventArgs(seq, owner, data) ==
    [header_id |-> Int_(1), event_descriptor_id |-> Int_(1), seq_no |-> seq,
     owner |-> owner, description |-> Omitted, data |-> data]
BeamlineConfigArgs(cp) == [header_id |-> Int_(1), config_params |-> cp]

\* Inputs of the storage specification: a few valid records, and one input
\* for each way a constructor argument can be invalid.
HeaderValid ==
    { HeaderArgs(T0, Int_(42), Str("alice"), Omitted, Omitted),
      HeaderArgs(T0, Int_(42), Str("bob"), Omitted, Omitted),
      HeaderArgs(T0, Int_(43), Str("alice"), Omitted, Omitted) }
HeaderInvalid ==
    { HeaderArgs(T0, Int_(42), Int_(5), Omitted, Omitted),
      HeaderArgs(T0, Int_(42), Str("bob"), Omitted, Str("notamapping")),
      HeaderArgs(NoneV, Int_(42), Str("bob"), Omitted, Omitted) }
EventDescriptorValid == { EventDescriptorArgs(Str("scan"), Omitted) }
EventDescriptorInvalid == { EventDescriptorArgs(Str("scan"), ListLit(<<"x">>)) }
EventValid == { EventArgs(Int_(3), Omitted, DictLit(<<"x">>)) }
EventInvalid ==
    { EventArgs(Str("three"), Omitted, Omitted),
      EventArgs(Int_(3), Omitted, Int_(7)) }
BeamlineConfigValid == { BeamlineConfigArgs(Omitted) }
BeamlineConfigInvalid == { BeamlineConfigArgs(Str("notamapping")) }

\* Inputs of the construction specification: valid records with an optional
\* argument omitted or passed.
HeaderCtorArgs ==
    { HeaderArgs(T0, Int_(42), Omitted, Omitted, Omitted),
      HeaderArgs(T0, Int_(42), Str("bob"), Omitted, Omitted),
      HeaderArgs(T0, Int_(42), Omitted, ListLit(<<>>), Omitted),
      HeaderArgs(T0, Int_(42), Omitted, ListLit(<<"x">>), DictLit(<<>>)) }
EventDescriptorCtorArgs ==
    { EventDescriptorArgs(Str("scan"), Omitted),
      EventDescriptorArgs(Str("scan"), DictLit(<<"x">>)) }
EventCtorArgs ==
    { EventArgs(Int_(3), Omitted, Omitted),
      EventArgs(Int_(3), Str("bob"), DictLit(<<"x">>)) }
BeamlineConfigCtorArgs ==
    { BeamlineConfigArgs(Omitted), BeamlineConfigArgs(DictLit(<<>>)) }

\* ---------------------------------------------------------- specifications
\* Storage: valid records are constructed and saved by concurrent callers.
SaveSteps(p) ==
    \/ \E i \in 1..MaxObjs : SaveInsert(p, i)
    \/ EnsureStep(p)

Next ==
    \/ \E a \in HeaderValid : HeaderNew(a)
    \/ \E a \in EventDescriptorValid : EventDescriptorNew(a)
    \/ \E a \in EventValid : EventNew(a)
    \/ \E a \in BeamlineConfigValid : BeamlineConfigNew(a)
    \/ \E p \in Callers : SaveSteps(p)

Spec == Init /\ [][Next]_vars

\* Validation: records are constructed from valid and from invalid input and
\* saved by one caller.
NextValidate ==
    \/ \E a \in HeaderValid \cup HeaderInvalid : HeaderNew(a)
    \/ \E a \in EventDescriptorValid \cup EventDescriptorInvalid : EventDescriptorNew(a)
    \/ \E a \in EventValid \cup EventInvalid : EventNew(a)
    \/ \E a \in BeamlineConfigValid \cup BeamlineConfigInvalid : BeamlineConfigNew(a)
    \/ SaveSteps("c1")

SpecValidate == Init /\ [][NextValidate]_vars

\* Construction: records are constructed with optional arguments omitted or
\* passed, their containers are changed in place, the user identity changes.
NextCtor ==
    \/ \E a \in HeaderCtorArgs : HeaderNew(a)
    \/ \E a \in EventDescriptorCtorArgs : EventDescriptorNew(a)
    \/ \E a \in EventCtorArgs : EventNew(a)
    \/ \E a \in BeamlineConfigCtorArgs : BeamlineConfigNew(a)
    \/ \E i \in 1..MaxObjs, k \in {"tags", "header_versions", "custom",
                                   "type_descriptor", "data", "config_params"} : Mutate(i, k)
    \/ \E u \in Users : SetUser(u)

SpecCtor == Init /\ [][NextCtor]_vars

\* ------------------------------------------------------------------ claims
CallIdx == 1..Len(calls)
Finished(c) == c.pc \in {"done", "raised"}
Stored(c) == \E d \in docs[CollOf(c.cls)] : d.id = c.id
SameScan(c1, c2) ==
    c1.cls = "Header" /\ c2.cls = "Header" /\ c1.doc.scan_id = c2.doc.scan_id

\* C1: once the scan_id index declared by Header.save exists, a Header save
\* whose scan_id is already stored fails with the constraint error, returns
\* no id and stores nothing, while the save that stored the scan_id succeeds:
\* of the two saves exactly one succeeds.
C1_OneSuccessOneConstraintError ==
    \A m, n \in CallIdx :
        (/\ m # n
         /\ SameScan(calls[m], calls[n])
         /\ calls[m].insertOk
         /\ calls[n].id > calls[m].id
         /\ calls[n].indexed)
        => /\ calls[n].pc = "raised"
           /\ calls[n].err = "DuplicateKeyError"
           /\ calls[n].ret = 0
           /\ ~Stored(calls[n])
           /\ Stored(calls[m])
           /\ Finished(calls[m]) => calls[m].pc = "done"

C1_Witness ==
    \E m, n \in CallIdx :
        /\ SameScan(calls[m], calls[n])
        /\ calls[m].pc = "done"
        /\ calls[n].pc = "raised"
        /\ calls[n].indexed
        /\ calls[n].doc.owner = Str("bob")
        /\ calls[m].doc.owner = Str("alice")

\* C2: two header documents share a scan_id only when both were inserted
\* while the scan_id index did not exist yet, and then the index does not
\* exist either (the witness is the state with the two documents).
ScanIdKeys == <<Key("scan_id", -1)>>
C2_DuplicatesOnlyBeforeIndex ==
    \A d1, d2 \in docs["header"] :
        (d1 # d2 /\ d1.body.scan_id = d2.body.scan_id)
        => /\ ~\E e \in indexes["header"] : e.keys = ScanIdKeys
           /\ \A n \in CallIdx :
                 (calls[n].cls = "Header" /\ calls[n].id \in {d1.id, d2.id})
                 => ~calls[n].indexed

C2_Witness ==
    \E d1, d2 \in docs["header"] :
        /\ d1.id # d2.id
        /\ d1.body.scan_id = d2.body.scan_id
        /\ \E m, n \in CallIdx :
              /\ calls[m].id = d1.id /\ calls[n].id = d2.id
              /\ calls[m].caller # calls[n].caller
              /\ calls[m].insertOk /\ calls[n].insertOk

\* C3: a save call that ended by raising has left no document in the
\* collection.
C3_NoDocumentAfterFailedSave ==
    \A n \in CallIdx : calls[n].pc = "raised" => ~Stored(calls[n])

\* C4: a constructor call with invalid input raises the validation error,
\* creates no record object and changes neither the collections nor the
\* index sets nor the save calls; no record object made from invalid input
\* exists, so none is ever saved.
NonString(v) == v.t \notin {"str", "none", "omitted"}
NonMapping(v) == v.t \notin {"dict", "omitted"}
InvalidInput(cls, args) ==
    CASE cls = "Header" -> \/ NonString(args.owner)
                           \/ NonMapping(args.custom)
                           \/ args.start_time.t \in {"none", "omitted"}
      [] cls = "EventDescriptor" -> NonMapping(args.type_descriptor)
      [] cls = "Event" -> args.seq_no.t # "int" \/ NonMapping(args.data)
      [] cls = "BeamlineConfig" -> NonMapping(args.config_params)
      [] OTHER -> FALSE
C4_NoObjectFromInvalid ==
    /\ InvalidInput(lastCtor.cls, lastCtor.args) => lastCtor.raised
    /\ \A i \in 1..Len(objs) : ~InvalidInput(objs[i].cls, objs[i].args)
C4_ValidationBeforeStorage ==
    /\ []C4_NoObjectFromInvalid
    /\ [][((lastCtor' # lastCtor \/ objs' # objs)
            /\ InvalidInput(lastCtor'.cls, lastCtor'.args))
          => (/\ lastCtor'.raised
              /\ objs' = objs /\ heap' = heap
              /\ docs' = docs /\ indexes' = indexes
              /\ calls' = calls /\ nextId' = nextId)]_vars

C4_Witness ==
    /\ lastCtor.raised
    /\ InvalidInput(lastCtor.cls, lastCtor.args)
    /\ Len(objs) > 0
    /\ \E n \in CallIdx : calls[n].pc = "done" /\ Stored(calls[n])

\* C5: the index set every collection is expected to have.
ExpectedIndexes ==
    [c \in Colls |->
        CASE c = "header" ->
                { Idx(<<Key("scan_id", -1)>>, TRUE),
                  Idx(<<Key("owner", -1), Key("start_time", -1)>>, FALSE) }
          [] c = "event_type_descriptor" ->
                { Idx(<<Key("header_id", -1), Key("descriptor_name", -1)>>, FALSE) }
          [] c = "event" ->
                { Idx(<<Key("event_descriptor_id", -1), Key("header_id", 1),
                        Key("data", -1)>>, FALSE) }
          [] c = "beamline_config" ->
                { Idx(<<Key("header_id", -1)>>, FALSE) }]

\* C5: after any save call, returned or raised, the collection has exactly
\* the expected index set.
C5_IndexesAfterAnySave ==
    \A n \in CallIdx :
        Finished(calls[n]) => indexes[CollOf(calls[n].cls)] = ExpectedIndexes[CollOf(calls[n].cls)]

\* C6: a container field omitted by the caller was empty when the record was
\* constructed, and its container object is the field of no other record
\* and of no other field.
C6_FreshDefaultContainers ==
    \A i \in 1..Len(objs) : \A k \in DOMAIN objs[i].args :
        (objs[i].args[k] = Omitted /\ IsContainer(objs[i].f[k]))
        => /\ objs[i].made[k].c = <<>>
           /\ \A j \in 1..Len(objs) : \A l \in DOMAIN objs[j].f :
                 (<<j, l>> # <<i, k>> /\ IsContainer(objs[j].f[l]))
                 => objs[j].f[l].n # objs[i].f[k].n

\* C7: a Header or Event constructed without owner has the identity of the
\* process user at the time of the constructor call as its owner.
C7_OwnerResolvedAtConstruction ==
    \A i \in 1..Len(objs) :
        (objs[i].cls \in {"Header", "Event"} /\ objs[i].args.owner = Omitted)
        => objs[i].f.owner = Str(objs[i].by)

\* C8: the document composed from a newly constructed record has exactly the
\* fields of its record type; a passed argument is held as passed, an omitted
\* one as its default: status "In Progress", an empty container, null.
FieldsOf(cls) ==
    CASE cls = "Header" -> {"start_time", "end_time", "owner", "scan_id", "status",
                            "beamline_id", "header_versions", "custom", "tags"}
      [] cls = "EventDescriptor" -> {"header_id", "event_type_id", "descriptor_name",
                                     "tag", "type_descriptor"}
      [] cls = "Event" -> {"header_id", "event_descriptor_id", "seq_no", "owner",
                           "description", "data"}
      [] cls = "BeamlineConfig" -> {"header_id", "config_params"}
DocumentedDefault(k, v) ==
    CASE k = "status" -> v = Str("In Progress")
      [] k \in {"tags", "header_versions"} -> v = ListLit(<<>>)
      [] k \in {"custom", "type_descriptor", "data", "config_params"} -> v = DictLit(<<>>)
      [] k \in {"end_time", "beamline_id", "tag", "description"} -> v = NoneV
      [] k = "owner" -> v.t = "str"
      [] OTHER -> FALSE
C8_ComposedDocument ==
    \A i \in 1..Len(objs) :
        /\ DOMAIN objs[i].made = FieldsOf(objs[i].cls)
        /\ \A k \in DOMAIN objs[i].args :
              IF objs[i].args[k] = Omitted
              THEN DocumentedDefault(k, objs[i].made[k])
              ELSE objs[i].made[k] = objs[i].args[k]

\* C9: in every save call ensure_index is issued only after the call's insert
\* succeeded; a call whose insert failed has issued no ensure_index, ends
\* raised with the backend's error and without an id, and the failing insert
\* leaves every index set as it was; a call that returned has issued its
\* insert and all its index declarations, in this order, and returns the id.
C9_CallShape ==
    \A n \in CallIdx :
        LET c == calls[n] IN
        /\ c.ensured > 0 => c.insertOk
        /\ (c.id # 0 /\ ~c.insertOk)
              => c.pc = "raised" /\ c.ensured = 0 /\ c.ret = 0 /\ c.err = "DuplicateKeyError"
        /\ c.pc = "raised" => c.ret = 0 /\ c.err # ""
        /\ c.pc = "done"
              => /\ c.insertOk /\ c.err = ""
                 /\ c.ensured = Len(SaveIndexes(c.cls))
                 /\ c.ret = c.id /\ c.id # 0
        /\ c.pc = "ensure" => c.insertOk /\ c.ensured = c.k - 1
C9_LinearSave ==
    /\ []C9_CallShape
    /\ [][(Len(calls') > Len(calls) /\ ~calls'[Len(calls')].insertOk)
            => indexes' = indexes /\ docs' = docs]_vars

C9_Witness ==
    \E m, n \in CallIdx :
        /\ calls[m].pc = "done" /\ calls[m].cls = "Header"
        /\ calls[n].pc = "raised" /\ ~calls[n].insertOk /\ calls[n].id # 0

\* C10: every collection holds exactly the documents of the inserts that
\* succeeded on it, one per insert and each under its own id; no step removes
\* or replaces a document or changes two collections; two returned saves of
\* one EventDescriptor, Event or BeamlineConfig object store two documents,
\* and a second save of a Header object fails once the scan_id index exists.
InsertedOn(c) == {n \in CallIdx : CollOf(calls[n].cls) = c /\ calls[n].insertOk}
C10_OneDocPerInsert ==
    /\ \A c \in Colls :
          /\ docs[c] = {[id |-> calls[n].id, body |-> Encode(calls[n].doc, heap)] :
                            n \in InsertedOn(c)}
          /\ Cardinality(docs[c]) = Cardinality(InsertedOn(c))
          /\ \A d1, d2 \in docs[c] : d1 # d2 => d1.id # d2.id
    /\ \A m, n \in CallIdx :
          (m # n /\ calls[m].obj = calls[n].obj)
          => IF calls[m].cls = "Header"
             THEN (calls[m].insertOk /\ calls[n].id > calls[m].id /\ calls[n].indexed)
                  => calls[n].pc = "raised"
             ELSE (calls[m].pc = "done" /\ calls[n].pc = "done")
                  => /\ calls[m].ret # calls[n].ret
                     /\ Stored(calls[m]) /\ Stored(calls[n])
C10_AppendOnly ==
    /\ []C10_OneDocPerInsert
    /\ [][/\ \A c \in Colls : docs[c] \subseteq docs'[c]
          /\ \A c1, c2 \in Colls :
                (docs'[c1] # docs[c1] /\ docs'[c2] # docs[c2]) => c1 = c2]_vars

C10_Witness ==
    \E m, n \in CallIdx :
        /\ m # n /\ calls[m].obj = calls[n].obj
        /\ calls[m].cls # "Header"
        /\ calls[m].pc = "done" /\ calls[n].pc = "done"
        /\ Cardinality(docs[CollOf(calls[m].cls)]) = 2

====
